---- MODULE Spec2Model ----
(***************************************************************************)
(* SyncMapFragmentList (aeneas/syncmap/fragmentlist.py): a list of sync    *)
(* map fragments kept within the list bounds, sorted, and overlapping only *)
(* at boundaries.  Time values are exact decimals with three digits; the   *)
(* model counts them in thousandths, so TimeValue("0.001") is 1.           *)
(***************************************************************************)
EXTENDS Integers, Sequences, FiniteSets, TLC

\* begin, end: the bounds of the list, each a TimeValue or None; fragments: what the list holds, in
\* its order; ids[i]: the first position of the list that holds the same
\* object as position i; sorted: the flag is_guaranteed_sorted; op: the last
\* call and what it raised
VARIABLES begin, end, fragments, ids, sorted, op

vars == <<begin, end, fragments, ids, sorted, op>>

(***************************************************************************)
(* Bounds of the model.                                                    *)
(***************************************************************************)
\* Spec: the list end, and the largest number of fragments in the list
MaxT == 1
MaxLen == 2
\* SpecAdd: the list end, and the largest number of fragments in the list
AddMaxT == 2
AddMaxLen == 3
\* SpecList: the list end, and the largest number of fragments in the list
ListMaxT == 3
ListMaxLen == 3
\* SpecList: the largest offset amount given to fix_zero_length_intervals
MaxOffset == 2
\* SpecSort: the list end, and the largest number of fragments in the list
SortMaxT == 2
SortMaxLen == 3
\* SpecItem: the list end, and the largest number of fragments in the list
ItemMaxT == 2
ItemMaxLen == 2

\* payloads of the fragments (opaque to the list)
Payloads == {"a", "b"}

(***************************************************************************)
(* TimeInterval and SyncMapFragment (aeneas.exacttiming,                   *)
(* aeneas.syncmap.fragment): the collaborators the list consumes.          *)
(***************************************************************************)

\* a SyncMapFragment: its interval's begin and end, and its payload
Fragment(b, e, t) == [type |-> "SyncMapFragment", begin |-> b, end |-> e, text |-> t]

\* a value given where a fragment is asked for that is no SyncMapFragment and
\* has neither an end nor an interval (a string, None)
NotAFragment == [type |-> "other", begin |-> 0, end |-> 0, text |-> "a"]

\* a TimeInterval given where a fragment is asked for: it has a begin and an
\* end, both 0, and no interval
AnInterval == [type |-> "TimeInterval", begin |-> 0, end |-> 0, text |-> "a"]

\* a SyncMapFragment whose interval is no TimeInterval (None, a string, a
\* pair of numbers)
FragmentWithoutInterval ==
    [type |-> "SyncMapFragment without TimeInterval", begin |-> 0, end |-> 0,
     text |-> "a"]

\* a TimeValue, an argument that is neither a TimeValue nor None, and None
\* as a bound of the list
TimeValue(v) == [type |-> "TimeValue", value |-> v]
NotATimeValue == [type |-> "other", value |-> 0]
NoneValue == [type |-> "None", value |-> 0]

\* x is not None
IsSet(x) == x.type # "None"

length(f) == f.end - f.begin

has_zero_length(f) == length(f) = 0

\* the position of other relative to self
relative_position_of(self, other) ==
    IF has_zero_length(self)
    THEN IF has_zero_length(other)
         THEN IF other.begin < self.begin THEN "PP_L"
              ELSE IF other.begin = self.begin THEN "PP_C"
              ELSE "PP_G"
         ELSE IF other.end < self.begin THEN "PI_LL"
              ELSE IF other.end = self.begin THEN "PI_LC"
              ELSE IF other.begin < self.begin THEN "PI_LG"
              ELSE IF other.begin = self.begin THEN "PI_CG"
              ELSE "PI_GG"
    ELSE IF has_zero_length(other)
         THEN IF other.begin < self.begin THEN "IP_L"
              ELSE IF other.begin = self.begin THEN "IP_B"
              ELSE IF other.begin < self.end THEN "IP_I"
              ELSE IF other.begin = self.end THEN "IP_E"
              ELSE "IP_G"
         ELSE IF other.end < self.begin THEN "II_LL"
              ELSE IF other.end = self.begin THEN "II_LB"
              ELSE IF other.end < self.end
                   THEN IF other.begin < self.begin THEN "II_LI"
                        ELSE IF other.begin = self.begin THEN "II_BI"
                        ELSE "II_II"
              ELSE IF other.end = self.end
                   THEN IF other.begin < self.begin THEN "II_LE"
                        ELSE IF other.begin = self.begin THEN "II_BE"
                        ELSE "II_IE"
              ELSE IF other.begin < self.begin THEN "II_LG"
                   ELSE IF other.begin = self.begin THEN "II_BG"
                   ELSE IF other.begin < self.end THEN "II_IG"
                   ELSE IF other.begin = self.end THEN "II_EG"
                   ELSE "II_GG"

is_adjacent_before(self, other) == self.end = other.begin

\* the total order of fragments: by begin, then by end
fragment_lt(a, b) == \/ a.begin < b.begin
                     \/ a.begin = b.begin /\ a.end < b.end

Min2(a, b) == IF a < b THEN a ELSE b
Max2(a, b) == IF a > b THEN a ELSE b

\* x kept from going below min_begin_value and from going above
\* max_end_value, each a TimeValue or None: a bound that is None clamps nothing
clamp(x, min_begin_value, max_end_value) ==
    LET lo == IF IsSet(min_begin_value) THEN Max2(x, min_begin_value.value) ELSE x
    IN  IF IsSet(max_end_value) THEN Min2(lo, max_end_value.value) ELSE lo

\* TimeInterval.offset: shift by offset, clamped into [min_begin_value,
\* max_end_value], never to a negative length
interval_offset(f, offset, allow_negative, min_begin_value, max_end_value) ==
    LET b == clamp(f.begin + offset, min_begin_value, max_end_value)
        e == clamp(f.end + offset, min_begin_value, max_end_value)
    IN  [f EXCEPT !.begin = b,
                  !.end = IF ~allow_negative /\ e < b THEN b ELSE e]

\* TimeInterval.shrink: move begin forward
shrink(f, quantity) == [f EXCEPT !.begin = f.begin + quantity]

\* TimeInterval.enlarge: move begin backward
enlarge(f, quantity) == [f EXCEPT !.begin = f.begin - quantity]

\* TimeInterval.move_end_at: set end
move_end_at(f, point) == [f EXCEPT !.end = point]

(***************************************************************************)
(* SyncMapFragmentList.                                                    *)
(***************************************************************************)

ALLOWED_POSITIONS ==
    {"PP_L", "PP_C", "PP_G",
     "PI_LL", "PI_LC", "PI_CG", "PI_GG",
     "IP_L", "IP_B", "IP_E", "IP_G",
     "II_LL", "II_LB", "II_EG", "II_GG"}

NoError == "none"
ErrNotFragment == "TypeError: fragment is not an instance of SyncMapFragment"
ErrNotInterval == "TypeError: interval is not an instance of TimeInterval"
ErrBeforeBegin == "ValueError: interval.begin is before self.begin"
ErrAfterEnd == "ValueError: interval.end is after self.end"
ErrOverlap == "ValueError: interval overlaps another already present interval"
ErrSortOverlap == "ValueError: The list contains two time intervals overlapping in a forbidden way"
ErrNotSorted == "ValueError: Unable to add with sort=True if the list is not guaranteed sorted"
ErrNotTimeValue == "TypeError: offset is not an instance of TimeValue"
ErrAttribute == "AttributeError: object has no attribute interval"
ErrCompare == "TypeError: comparison with an object that is no SyncMapFragment"
ErrIndex == "IndexError: list assignment index out of range"
ErrCompareNone == "TypeError: comparison of a TimeValue with None"
ErrBeginNotTimeValue == "TypeError: begin is not an instance of TimeValue"
ErrEndNotTimeValue == "TypeError: end is not an instance of TimeValue"
ErrBeginNegative == "ValueError: begin is negative"
ErrBeginAfterEnd == "ValueError: begin is bigger than end"

\* line 109: x is an instance of SyncMapFragment
IsSyncMapFragment(x) ==
    x.type \in {"SyncMapFragment", "SyncMapFragment without TimeInterval"}

\* lines 109 and 112: x is a SyncMapFragment and its interval is a
\* TimeInterval
IsFragment(x) == x.type = "SyncMapFragment"

\* x has an attribute end that is a TimeValue: a SyncMapFragment with a
\* TimeInterval has, and a TimeInterval
HasEnd(x) == x.type \in {"SyncMapFragment", "TimeInterval"}

\* every entry of a is a SyncMapFragment with a TimeInterval
AllFragments(a) == \A i \in 1..Len(a) : IsFragment(a[i])

\* the least element of the non-empty set of integers S
MinOf(S) == CHOOSE x \in S : \A y \in S : x <= y

\* the list stores the objects it is given (lines 101, 185, 188), so one
\* object can stand at several positions.  labels tells which positions hold
\* the same object; canon names every object by the first position it has
canon(labels) ==
    [i \in 1..Len(labels) |->
        MinOf({j \in 1..Len(labels) : labels[j] = labels[i]})]

\* the object at position k (from 1) of a is changed in place to v: every
\* position that holds the object shows v
put(a, k, v) == [i \in 1..Len(a) |-> IF ids[i] = ids[k] THEN v ELSE a[i]]

\* the error _check_boundaries raises for fragment, if any
check_boundaries(fragment) ==
    IF ~IsSyncMapFragment(fragment) THEN ErrNotFragment
    ELSE IF ~IsFragment(fragment) THEN ErrNotInterval
    ELSE IF IsSet(begin) /\ fragment.begin < begin.value THEN ErrBeforeBegin
    ELSE IF IsSet(end) /\ fragment.end > end.value THEN ErrAfterEnd
    ELSE NoError

\* check_overlap looking at the first fragment of the list only
check_overlap_first_only(fragment) ==
    IF /\ Len(fragments) > 0
       /\ relative_position_of(fragments[1], fragment) \notin ALLOWED_POSITIONS
    THEN ErrOverlap
    ELSE NoError

\* lines 129-135: the scan of _check_overlap over the entries of a, which
\* stops at the first entry that has no TimeInterval or is in a forbidden
\* position
overlap_error(a, fragment) ==
    LET bad == {i \in 1..Len(a) :
                   \/ ~IsFragment(a[i])
                   \/ relative_position_of(a[i], fragment) \notin ALLOWED_POSITIONS}
    IN  IF bad = {} THEN NoError
        ELSE IF IsFragment(a[MinOf(bad)]) THEN ErrOverlap
        ELSE ErrAttribute

\* the error _check_overlap raises for fragment, if any: a scan of the whole list
check_overlap(fragment) == overlap_error(fragments, fragment)

\* bisect.bisect_right(a, x, lo, hi), positions counted from 0
RECURSIVE bisect_right(_, _, _, _)
bisect_right(a, x, lo, hi) ==
    IF lo < hi
    THEN LET mid == (lo + hi) \div 2
         IN  IF fragment_lt(x, a[mid + 1])
             THEN bisect_right(a, x, lo, mid)
             ELSE bisect_right(a, x, mid + 1, hi)
    ELSE lo

\* insort putting x at the end of the list
insort_at_end(a, x) == Append(a, x)

\* insort putting x before the entries that are not smaller
insort_before_equal(a, x) ==
    LET lo == Cardinality({i \in 1..Len(a) : fragment_lt(a[i], x)})
    IN  SubSeq(a, 1, lo) \o <<x>> \o SubSeq(a, lo + 1, Len(a))

\* a with x put in after its first lo entries
insert_at(a, lo, x) == SubSeq(a, 1, lo) \o <<x>> \o SubSeq(a, lo + 1, Len(a))

\* bisect.insort(a, x): insert x after the entries that are not greater
insort(a, x) == insert_at(a, bisect_right(a, x, 0, Len(a)), x)

\* sorted(a) for fragments: the positions 1..n of a in the order a stable
\* sort by the fragment order puts them
RECURSIVE sorted_order(_, _)
sorted_order(a, n) ==
    IF n = 0 THEN <<>>
    ELSE LET init == sorted_order(a, n - 1)
             k == Cardinality({i \in 1..Len(init) : ~fragment_lt(a[n], a[init[i]])})
         IN  insert_at(init, k, n)

\* a sort that puts a fragment before those given earlier that the order
\* does not tell apart from it
RECURSIVE sorted_list_before_equal(_)
sorted_list_before_equal(a) ==
    IF a = <<>> THEN <<>>
    ELSE LET init == sorted_list_before_equal(SubSeq(a, 1, Len(a) - 1))
             x == a[Len(a)]
             k == Cardinality({i \in 1..Len(init) : fragment_lt(init[i], x)})
         IN  SubSeq(init, 1, k) \o <<x>> \o SubSeq(init, k + 1, Len(init))

\* sorted(a): a stable sort by the fragment order
sorted_list(a) == [i \in 1..Len(a) |-> a[sorted_order(a, Len(a))[i]]]

\* sort looking at the first adjacent pair only
sort_error_first_pair(a) ==
    IF Len(a) > 1 /\ relative_position_of(a[1], a[2]) \notin ALLOWED_POSITIONS
    THEN ErrSortOverlap
    ELSE NoError

\* lines 146-148: the error of the first adjacent pair of a that has an
\* entry without interval or is in a forbidden position, if any
sort_error(a) ==
    LET bad == {i \in 1..(Len(a) - 1) :
                   \/ ~IsFragment(a[i]) \/ ~IsFragment(a[i + 1])
                   \/ relative_position_of(a[i], a[i + 1]) \notin ALLOWED_POSITIONS}
    IN  IF bad = {} THEN NoError
        ELSE IF IsFragment(a[MinOf(bad)]) /\ IsFragment(a[MinOf(bad) + 1])
        THEN ErrSortOverlap
        ELSE ErrAttribute

\* line 192, its four tests in their order: the call returns at the first
\* that is true, and goes on when none is; value, a TimeValue, is compared
\* with a bound that is None when the test before is false, and the
\* comparison raises
move_end_test(index, value) ==
    IF ~IsSet(begin) THEN "raises"
    ELSE IF value < begin.value THEN "returns"
    ELSE IF ~IsSet(end) THEN "raises"
    ELSE IF value > end.value \/ index < 0 \/ index + 1 >= Len(fragments)
    THEN "returns"
    ELSE "goes on"

\* lines 192-198: the error move_end raises, if any: line 197 asks the entry
\* at index + 1 for its end first and returns when value is greater; only
\* then it asks the entry at index, and the one at index + 1, for interval
move_end_error(index, value) ==
    IF move_end_test(index, value) = "raises" THEN ErrCompareNone
    ELSE IF move_end_test(index, value) = "returns" THEN NoError
    ELSE LET current_fragment == fragments[index + 1]
             next_fragment == fragments[index + 2]
         IN  IF ~HasEnd(next_fragment) THEN ErrAttribute
             ELSE IF value > next_fragment.end THEN NoError
             ELSE IF ~IsFragment(current_fragment) THEN ErrAttribute
             ELSE IF ~IsFragment(next_fragment) THEN ErrAttribute
             ELSE NoError

\* line 197: what move_end can raise.  The end of a SyncMapFragment whose
\* interval is no TimeInterval is not fixed by this file: reading it raises,
\* or gives None, and the comparison of value with None raises
move_end_raised(index, value) ==
    IF /\ move_end_test(index, value) = "goes on"
       /\ IsSyncMapFragment(fragments[index + 2])
       /\ ~IsFragment(fragments[index + 2])
    THEN {ErrAttribute, ErrCompareNone}
    ELSE {move_end_error(index, value)}

\* move_end, lines 191-201: the fragments after move_end(index, value); the
\* two assignments are made one after the other, each to an object
move_end_fragments(index, value) ==
    IF \/ move_end_test(index, value) # "goes on"
       \/ move_end_error(index, value) # NoError
    THEN fragments
    ELSE LET current_fragment == fragments[index + 1]
             next_fragment == fragments[index + 2]
         IN  IF \/ value > next_fragment.end
                \/ ~is_adjacent_before(current_fragment, next_fragment)
             THEN fragments
             ELSE LET a1 == put(fragments, index + 1,
                                [current_fragment EXCEPT !.end = value])
                  IN  put(a1, index + 2, [a1[index + 2] EXCEPT !.begin = value])

\* offset, lines 222-228: the position (from 1) of the first entry at which
\* the loop raises, 0 if it raises at none: an entry without interval, or any
\* interval when offset is no TimeValue
offset_stop(offset) ==
    LET bad == {k \in 1..Len(fragments) :
                   ~IsFragment(fragments[k]) \/ offset.type # "TimeValue"}
    IN  IF bad = {} THEN 0 ELSE MinOf(bad)

\* offset, lines 222-228: the error raised, if any
offset_error(offset) ==
    IF offset_stop(offset) = 0 THEN NoError
    ELSE IF ~IsFragment(fragments[offset_stop(offset)]) THEN ErrAttribute
    ELSE ErrNotTimeValue

\* offset, lines 222-228: a after the loop has gone through its first k
\* entries, shifting and clamping the object at each
RECURSIVE offset_upto(_, _, _)
offset_upto(a, k, offset) ==
    IF k = 0 THEN a
    ELSE LET b == offset_upto(a, k - 1, offset)
         IN  put(b, k, interval_offset(b[k], offset.value, FALSE, begin, end))

\* offset, lines 222-228: the fragments after the call, which has gone
\* through the entries before the one at which it raised
offset_fragments(offset) ==
    offset_upto(fragments,
                IF offset_stop(offset) = 0 THEN Len(fragments)
                ELSE offset_stop(offset) - 1,
                offset)

\* None, as an argument of fix_zero_length_intervals
None == -1

\* Python's "x or d": d when x is None or 0
or_default(x, d) == IF x = None \/ x = 0 THEN d ELSE x

Move(index, move_type, move_amount) ==
    [index |-> index, move_type |-> move_type, move_amount |-> move_amount]

\* lines 244-250: the walk forward from j; positions counted from 0.  The
\* walk raises at an entry without interval
RECURSIVE walk(_, _, _, _, _, _)
walk(a, j, slack, moves, offset, max_index) ==
    IF j < max_index /\ ~IsFragment(a[j + 1])
    THEN [j |-> j, slack |-> slack, moves |-> moves, raised |-> TRUE]
    ELSE IF j < max_index /\ length(a[j + 1]) < slack
    THEN IF has_zero_length(a[j + 1])
         THEN walk(a, j + 1, slack + offset,
                   Append(moves, Move(j, "ENLARGE", offset)), offset, max_index)
         ELSE walk(a, j + 1, slack,
                   Append(moves, Move(j, "MOVE", 0)), offset, max_index)
    ELSE [j |-> j, slack |-> slack, moves |-> moves, raised |-> FALSE]

\* lines 260-264: the moves k, k-1, ..., 1 applied in that order, each to
\* the object at its index
RECURSIVE replay(_, _, _, _)
replay(a, moves, k, current_time) ==
    IF k = 0 THEN a
    ELSE LET m == moves[k]
             moved == move_end_at(a[m.index + 1], current_time)
             done == IF m.move_type = "ENLARGE"
                     THEN enlarge(moved, m.move_amount)
                     ELSE moved
         IN  replay(put(a, m.index + 1, done), moves, k - 1, done.begin)

\* line 252: the walk w has reached max_index and the end of the list is
\* None: the comparison with it raises
room_test_raises(w, max_index) == w.j = max_index /\ ~IsSet(end)

\* fix_at extending the right edge without asking whether there is room
fix_at_no_room_test(a, i, offset, max_index) ==
    LET w == walk(a, i + 1, offset, <<Move(i, "ENLARGE", offset)>>, offset, max_index)
        j == w.j
    IN  IF j = max_index
        THEN replay(a, w.moves, Len(w.moves), a[j].end + w.slack)
        ELSE LET donor == shrink(a[j + 1], w.slack)
             IN  replay(put(a, j + 1, donor), w.moves, Len(w.moves), donor.begin)

\* lines 241-258, 265-268: the list after the zero-length fragment at i is handled
fix_at(a, i, offset, max_index) ==
    LET w == walk(a, i + 1, offset, <<Move(i, "ENLARGE", offset)>>, offset, max_index)
        j == w.j
    IN  IF w.raised \/ room_test_raises(w, max_index) THEN a
        ELSE IF j = max_index /\ a[j].end + w.slack <= end.value
        THEN replay(a, w.moves, Len(w.moves), a[j].end + w.slack)
        ELSE IF j < max_index
        THEN LET donor == shrink(a[j + 1], w.slack)
             IN  replay(put(a, j + 1, donor), w.moves, Len(w.moves), donor.begin)
        ELSE a

\* the scan going on at the fragment after the zero-length one
resume_index_next(i, j) == i + 1

\* lines 269-270, "i = j - 1" then "i += 1": where the scan goes on after
\* the zero-length fragment at i, whose walk stopped at j
resume_index(i, j) == (j - 1) + 1

\* lines 239-270: the scan from i, which ends where max_index is reached or
\* the call raises
RECURSIVE fix_from(_, _, _, _)
fix_from(a, i, offset, max_index) ==
    IF i < max_index /\ IsFragment(a[i + 1])
    THEN IF has_zero_length(a[i + 1])
         THEN LET w == walk(a, i + 1, offset, <<Move(i, "ENLARGE", offset)>>,
                            offset, max_index)
              IN  IF w.raised \/ room_test_raises(w, max_index) THEN a
                  ELSE fix_from(fix_at(a, i, offset, max_index), resume_index(i, w.j),
                                offset, max_index)
         ELSE fix_from(a, i + 1, offset, max_index)
    ELSE a

\* lines 239-270: the error that the scan from i raises, if any: at an entry
\* without interval, or at the comparison with a list end that is None
RECURSIVE fix_error(_, _, _, _)
fix_error(a, i, offset, max_index) ==
    IF i < max_index
    THEN IF ~IsFragment(a[i + 1]) THEN ErrAttribute
         ELSE IF has_zero_length(a[i + 1])
         THEN LET w == walk(a, i + 1, offset, <<Move(i, "ENLARGE", offset)>>,
                            offset, max_index)
              IN  IF w.raised THEN ErrAttribute
                  ELSE IF room_test_raises(w, max_index) THEN ErrCompareNone
                  ELSE fix_error(fix_at(a, i, offset, max_index),
                                 resume_index(i, w.j), offset, max_index)
         ELSE fix_error(a, i + 1, offset, max_index)
    ELSE NoError

\* lines 239-270: the iterations of the outer loop from i that come to their
\* end, one record each: the scan index, whether the fragment there has zero
\* length, where the walk stopped and with what slack, and the list before
\* and after
RECURSIVE fix_iterations(_, _, _, _)
fix_iterations(a, i, offset, max_index) ==
    IF i < max_index /\ IsFragment(a[i + 1])
    THEN IF has_zero_length(a[i + 1])
         THEN LET w == walk(a, i + 1, offset, <<Move(i, "ENLARGE", offset)>>,
                            offset, max_index)
                  b == fix_at(a, i, offset, max_index)
              IN  IF w.raised \/ room_test_raises(w, max_index) THEN <<>>
                  ELSE <<[i |-> i, zero |-> TRUE, j |-> w.j, slack |-> w.slack,
                          before |-> a, after |-> b]>>
                       \o fix_iterations(b, resume_index(i, w.j), offset, max_index)
         ELSE <<[i |-> i, zero |-> FALSE, j |-> i + 1, slack |-> 0,
                 before |-> a, after |-> a]>>
              \o fix_iterations(a, i + 1, offset, max_index)
    ELSE <<>>

\* fix_zero_length_intervals, lines 230-270
fix_zero_length_intervals_fragments(offset, min_index, max_index) ==
    fix_from(fragments, or_default(min_index, 0), offset,
             or_default(max_index, Len(fragments)))

\* fix_zero_length_intervals, lines 230-270: the error raised, if any
fix_zero_length_intervals_error(offset, min_index, max_index) ==
    fix_error(fragments, or_default(min_index, 0), offset,
              or_default(max_index, Len(fragments)))

\* add, lines 179-185, with sort=True, called for each fragment of fs in turn
\* on a sorted list holding acc, the fragments of fs being within the list
\* bounds: whether every call succeeded, and the fragments after the last
\* call that did
RECURSIVE add_each_sorted(_, _)
add_each_sorted(acc, fs) ==
    IF fs = <<>> THEN [ok |-> TRUE, fragments |-> acc]
    ELSE IF overlap_error(acc, Head(fs)) # NoError
    THEN [ok |-> FALSE, fragments |-> acc]
    ELSE add_each_sorted(insort(acc, Head(fs)), Tail(fs))

\* add, lines 179-189: the error raised, if any
add_error(fragment, sort_arg) ==
    IF check_boundaries(fragment) # NoError THEN check_boundaries(fragment)
    ELSE IF sort_arg
    THEN IF ~sorted THEN ErrNotSorted ELSE check_overlap(fragment)
    ELSE NoError

\* add inserting the fragment before _check_overlap looks at it
add_fragments_insert_first(fragment, sort_arg) ==
    IF check_boundaries(fragment) # NoError THEN fragments
    ELSE IF sort_arg
    THEN IF ~sorted THEN fragments ELSE insort(fragments, fragment)
    ELSE Append(fragments, fragment)

\* add, lines 179-189: the fragments after the call
add_fragments(fragment, sort_arg) ==
    IF add_error(fragment, sort_arg) # NoError THEN fragments
    ELSE IF sort_arg THEN insort(fragments, fragment)
    ELSE Append(fragments, fragment)

\* add, lines 185 and 188: which positions hold the same object after the
\* call.  alias is 0 when the list does not hold the object given, and else
\* a position (from 1) at which it holds it
add_ids(fragment, alias, sort_arg) ==
    IF add_error(fragment, sort_arg) # NoError THEN ids
    ELSE LET label == IF alias = 0 THEN Len(fragments) + 1 ELSE ids[alias]
             lo == IF sort_arg
                   THEN bisect_right(fragments, fragment, 0, Len(fragments))
                   ELSE Len(fragments)
         IN  canon(insert_at(ids, lo, label))

\* add leaving the sorted flag as it is when it appends
add_sorted_flag_kept(fragment, sort_arg) == sorted

\* add, lines 179-189: the sorted flag after the call
add_sorted(fragment, sort_arg) ==
    IF add_error(fragment, sort_arg) # NoError THEN sorted
    ELSE IF sort_arg THEN sorted
    ELSE FALSE

\* sort leaving the fragments in the order it found them
sort_fragments_order_kept == fragments

\* sort, lines 144-149: the fragments after the call
sort_fragments == IF ~sorted THEN sorted_list(fragments) ELSE fragments

\* sort, line 145: which positions hold the same object after the call
sort_ids ==
    IF ~sorted
    THEN canon([i \in 1..Len(ids) |->
                   ids[sorted_order(fragments, Len(fragments))[i]]])
    ELSE ids

\* sort, lines 144-149: the error raised, if any
sort_raised == IF ~sorted THEN sort_error(sort_fragments) ELSE NoError

\* sort setting the sorted flag before it looks at the adjacent pairs
sort_sorted_before_check == TRUE

\* sort, lines 144-149: the sorted flag after the call
sort_sorted == IF ~sorted /\ sort_raised = NoError THEN TRUE ELSE sorted

\* sort, lines 144-149: what a call can leave.  sorted() compares the
\* entries with SyncMapFragment's comparison; what that does with an entry
\* that is no SyncMapFragment is not fixed by this file: the comparison
\* raises and nothing is assigned, or it returns and sorted() gives the
\* entries in some order, in which the loop of lines 146-148 then raises
sort_outcomes ==
    IF sorted \/ AllFragments(fragments) \/ Len(fragments) < 2
    THEN {[fragments |-> sort_fragments, ids |-> sort_ids,
           sorted |-> sort_sorted, raised |-> sort_raised]}
    ELSE {[fragments |-> fragments, ids |-> ids,
           sorted |-> sorted, raised |-> ErrCompare]}
         \cup {[fragments |-> [i \in 1..Len(fragments) |-> fragments[p[i]]],
                ids |-> canon([i \in 1..Len(ids) |-> ids[p[i]]]),
                sorted |-> sorted,
                raised |-> sort_error([i \in 1..Len(fragments) |-> fragments[p[i]]])]
               : p \in Permutations(1..Len(fragments))}

\* __setitem__, line 101: the error raised by the list assignment, if any
setitem_error(index) ==
    IF index < -Len(fragments) \/ index >= Len(fragments) THEN ErrIndex
    ELSE NoError

\* the position (from 1) that the list index stands for: a negative index
\* counts from the end
list_position(index) ==
    IF index < 0 THEN index + Len(fragments) + 1 ELSE index + 1

\* __setitem__, line 101: the fragments after the call; value is stored as
\* it is, with no test of its type, of the list bounds or of overlaps
setitem_fragments(index, value) ==
    IF setitem_error(index) # NoError THEN fragments
    ELSE [fragments EXCEPT ![list_position(index)] = value]

\* __setitem__, line 101: which positions hold the same object after the call
setitem_ids(index, alias) ==
    IF setitem_error(index) # NoError THEN ids
    ELSE canon([ids EXCEPT ![list_position(index)] =
                   IF alias = 0 THEN Len(fragments) + 1 ELSE ids[alias]])

(***************************************************************************)
(* The operations as actions.  op records the last call and what it raised *)
(***************************************************************************)

add(fragment, alias, sort_arg) ==
    /\ fragments' = add_fragments(fragment, sort_arg)
    /\ ids' = add_ids(fragment, alias, sort_arg)
    /\ sorted' = add_sorted(fragment, sort_arg)
    /\ op' = [name |-> "add", fragment |-> fragment, alias |-> alias,
              sort |-> sort_arg, raised |-> add_error(fragment, sort_arg)]
    /\ UNCHANGED <<begin, end>>

sort ==
    \E outcome \in sort_outcomes :
        /\ fragments' = outcome.fragments
        /\ ids' = outcome.ids
        /\ sorted' = outcome.sorted
        /\ op' = [name |-> "sort", raised |-> outcome.raised]
        /\ UNCHANGED <<begin, end>>

move_end(index, value) ==
    \E raised \in move_end_raised(index, value) :
        /\ fragments' = move_end_fragments(index, value)
        /\ op' = [name |-> "move_end", index |-> index, value |-> value,
                  raised |-> raised]
        /\ UNCHANGED <<begin, end, ids, sorted>>

offset(o) ==
    /\ fragments' = offset_fragments(o)
    /\ op' = [name |-> "offset", offset |-> o, raised |-> offset_error(o)]
    /\ UNCHANGED <<begin, end, ids, sorted>>

fix_zero_length_intervals(o, min_index, max_index) ==
    /\ fragments' = fix_zero_length_intervals_fragments(o, min_index, max_index)
    /\ op' = [name |-> "fix_zero_length_intervals", offset |-> o,
              min_index |-> min_index, max_index |-> max_index,
              raised |-> fix_zero_length_intervals_error(o, min_index, max_index)]
    /\ UNCHANGED <<begin, end, ids, sorted>>

\* __setitem__(index, value), lines 100-101
setitem(index, value, alias) ==
    /\ fragments' = setitem_fragments(index, value)
    /\ ids' = setitem_ids(index, alias)
    /\ op' = [name |-> "__setitem__", index |-> index, value |-> value,
              alias |-> alias, raised |-> setitem_error(index)]
    /\ UNCHANGED <<begin, end, sorted>>

\* what is given to add that is not a SyncMapFragment with a TimeInterval
NoFragments == {NotAFragment, FragmentWithoutInterval}

\* the fragments given to add: intervals with 0 <= begin <= end <= hi
Fragments(hi, texts) ==
    {f \in {Fragment(b, e, t) : b \in 0..hi, e \in 0..hi, t \in texts} :
        f.begin <= f.end}

\* what a caller can give where a fragment is asked for: an object that the
\* list does not hold, with one of the values, or the object that the list
\* holds at one of its positions
Arguments(values) ==
    {[fragment |-> v, alias |-> 0] : v \in values}
        \cup {[fragment |-> fragments[k], alias |-> k] :
                 k \in {i \in 1..Len(fragments) : IsFragment(fragments[i]) /\ ids[i] = i}}

\* the offset amount fix_zero_length_intervals takes by default, TimeValue("0.001")
DefaultOffset == 1

(***************************************************************************)
(* Spec: the list from its construction, under add, sort, move_end, offset *)
(* and fix_zero_length_intervals.                                          *)
(***************************************************************************)

\* the values given to __init__ as begin; TimeValue("0.000") is the default
ListBegins == {0, 1}

\* __init__, lines 80-88: the error raised for the arguments begin and end,
\* each a TimeValue, None, or a value that is neither
init_error(list_begin, list_end) ==
    IF IsSet(list_begin) /\ list_begin.type # "TimeValue" THEN ErrBeginNotTimeValue
    ELSE IF IsSet(list_end) /\ list_end.type # "TimeValue" THEN ErrEndNotTimeValue
    ELSE IF IsSet(list_begin) /\ list_begin.value < 0 THEN ErrBeginNegative
    ELSE IF IsSet(list_begin) /\ IsSet(list_end) /\ list_begin.value > list_end.value
    THEN ErrBeginAfterEnd
    ELSE NoError

\* __init__, lines 79-92, with begin = list_begin and end = list_end: a call
\* that raises makes no list
Construct(list_begin, list_end) ==
    /\ init_error(list_begin, list_end) = NoError
    /\ begin = list_begin
    /\ end = list_end
    /\ fragments = <<>>
    /\ ids = <<>>
    /\ sorted = TRUE
    /\ op = [name |-> "__init__", raised |-> NoError]

\* the values given to __init__ as begin: those of ListBegins, None, a
\* negative one, one after the list end, and one that is no TimeValue
InitBegins ==
    {TimeValue(b) : b \in ListBegins \cup {-1, MaxT + 1}}
        \cup {NoneValue, NotATimeValue}

\* the values given to __init__ as end, for a list end hi: hi, None (the
\* default), and one that is no TimeValue
InitEnds(hi) == {TimeValue(hi), NoneValue, NotATimeValue}

Init == \E b \in InitBegins, e \in InitEnds(MaxT) : Construct(b, e)

\* the bounds given to __init__ in SpecAdd and SpecSort, for a list end hi:
\* from 0 to hi, from 0 with no end (the default), no bound at all, and an
\* end that is no TimeValue
InitBounds(hi) ==
    {<<TimeValue(0), TimeValue(hi)>>, <<TimeValue(0), NoneValue>>,
     <<NoneValue, NoneValue>>, <<TimeValue(0), NotATimeValue>>}

\* a call of add that the bound on the length of the list admits
BoundedAdd(f, alias, s, max_len) ==
    /\ add_error(f, s) = NoError => Len(fragments) < max_len
    /\ add(f, alias, s)

\* a call of fix_zero_length_intervals that leaves no interval beginning
\* more than lowest before 0
BoundedFix(o, min_index, max_index, lowest) ==
    /\ fix_zero_length_intervals(o, min_index, max_index)
    /\ \A i \in 1..Len(fragments') : fragments'[i].begin >= -lowest

\* a call of offset that leaves no interval beginning more than lowest
\* before 0 or ending after highest, which a list with a bound that is None
\* does not see to
BoundedOffset(o, lowest, highest) ==
    /\ offset(o)
    /\ \A i \in 1..Len(fragments') :
          fragments'[i].begin >= -lowest /\ fragments'[i].end <= highest

Next ==
    \/ \E x \in Arguments(Fragments(MaxT + 1, {"a"}) \cup NoFragments),
          s \in BOOLEAN :
          BoundedAdd(x.fragment, x.alias, s, MaxLen)
    \/ sort
    \/ \E index \in {-1, 0, MaxLen - 1}, value \in 0..(MaxT + 1) : move_end(index, value)
    \/ \E d \in (-1)..1 : BoundedOffset(TimeValue(d), 0, MaxT + 1)
    \/ offset(NotATimeValue)
    \/ BoundedFix(DefaultOffset, None, None, MaxT)

Spec == Init /\ [][Next]_vars

(***************************************************************************)
(* SpecAdd: the list from its construction, under add(f, sort=True) alone. *)
(***************************************************************************)

InitAdd == \E b \in InitBounds(AddMaxT) : Construct(b[1], b[2])

\* the fragments given to add in SpecAdd: a second payload for the zero-length
\* fragments, the only ones that the list can hold twice, and a fragment
\* whose interval is no TimeInterval
AddFragments ==
    Fragments(AddMaxT + 1, {"a"})
        \cup {f \in Fragments(AddMaxT + 1, {"b"}) : has_zero_length(f)}
        \cup {FragmentWithoutInterval}

NextAdd ==
    \E x \in Arguments(AddFragments) :
        BoundedAdd(x.fragment, x.alias, TRUE, AddMaxLen)

SpecAdd == InitAdd /\ [][NextAdd]_vars

(***************************************************************************)
(* SpecSort: the list from its construction, under add(f, sort=False) and  *)
(* sort().                                                                 *)
(***************************************************************************)

InitSort == \E b \in InitBounds(SortMaxT) : Construct(b[1], b[2])

NextSort ==
    \/ \E x \in Arguments(Fragments(SortMaxT, Payloads)) :
          BoundedAdd(x.fragment, x.alias, FALSE, SortMaxLen)
    \/ sort

SpecSort == InitSort /\ [][NextSort]_vars

(***************************************************************************)
(* SpecList: one call of move_end, offset or fix_zero_length_intervals on  *)
(* a list that satisfies the invariants of the list.                       *)
(***************************************************************************)

\* a is in ascending order
IsAscending(a) == \A i \in 1..(Len(a) - 1) : ~fragment_lt(a[i + 1], a[i])

\* every adjacent pair of a is in an allowed position
AdjacentAllowed(a) ==
    \A i \in 1..(Len(a) - 1) :
        relative_position_of(a[i], a[i + 1]) \in ALLOWED_POSITIONS

\* every interval of a has begin <= end
IntervalsValid(a) == \A i \in 1..Len(a) : a[i].begin <= a[i].end

\* every interval of a is within [lo, hi]
WithinBounds(a, lo, hi) == \A i \in 1..Len(a) : a[i].begin >= lo /\ a[i].end <= hi

\* the invariants of a sorted list, section 3 of the specification
ListInvariants(a, lo, hi) ==
    /\ IntervalsValid(a)
    /\ WithinBounds(a, lo, hi)
    /\ IsAscending(a)
    /\ AdjacentAllowed(a)

\* the lists of at most n fragments within [lo, hi] that satisfy the invariants
InvariantLists(lo, hi, n) ==
    UNION {{a \in [1..k -> Fragments(hi, {"a"})] : ListInvariants(a, lo, hi)} : k \in 0..n}

\* the lists of the specification's examples of fix_zero_length_intervals,
\* with list end 2.000
ExampleEnd == 2000
ExampleList2 == <<Fragment(0, 0, "a"), Fragment(0, ExampleEnd, "a")>>
ExampleList3 == <<Fragment(0, 0, "a"), Fragment(0, 0, "b"), Fragment(0, ExampleEnd, "a")>>


\* the list of the specification's example of offset, with list end 0.002
OffsetExampleEnd == 2
OffsetExampleList == <<Fragment(0, 1, "a"), Fragment(1, 2, "a")>>

\* the ways in which the positions of a can hold the same objects: a
\* position holds the object of an earlier one only if it shows the same value
Aliasings(a) ==
    {s \in [1..Len(a) -> 1..Len(a)] :
        \A i \in 1..Len(a) : s[i] <= i /\ s[s[i]] = s[i] /\ a[s[i]] = a[i]}

InitList ==
    /\ \/ /\ begin \in {TimeValue(b) : b \in ListBegins}
          /\ end = TimeValue(ListMaxT)
          /\ fragments \in InvariantLists(begin.value, ListMaxT, ListMaxLen)
       \/ /\ begin = TimeValue(0) /\ end = TimeValue(ExampleEnd)
          /\ fragments \in {ExampleList2, ExampleList3}
       \/ /\ begin = TimeValue(0) /\ end = TimeValue(OffsetExampleEnd)
          /\ fragments = OffsetExampleList
    /\ ids \in Aliasings(fragments)
    /\ sorted = TRUE
    /\ op = [name |-> "__init__", raised |-> NoError]

Indexes == {None} \cup (0..ListMaxLen)

\* no call has been made yet
Fresh == op.name = "__init__"

NextList ==
    \/ \E index \in (-1)..ListMaxLen, value \in (-1)..(ListMaxT + 1) :
          Fresh /\ move_end(index, value)
    \/ \E d \in (-ListMaxT)..ListMaxT : Fresh /\ offset(TimeValue(d))
    \/ \E o \in 1..MaxOffset, lo \in Indexes, hi \in Indexes :
          /\ Fresh
          /\ or_default(lo, 0) <= or_default(hi, Len(fragments))
          /\ or_default(hi, Len(fragments)) <= Len(fragments)
          /\ fix_zero_length_intervals(o, lo, hi)

SpecList == InitList /\ [][NextList]_vars

(***************************************************************************)
(* SpecItem: a list that add and sort can have left, then at most one      *)
(* assignment to an index, then one call of another operation.             *)
(***************************************************************************)

\* the lists of at most n fragments within [lo, hi], in any order
BoundedLists(lo, hi, n) ==
    UNION {{a \in [1..k -> Fragments(hi, {"a"})] : WithinBounds(a, lo, hi)} : k \in 0..n}

\* after a sort that succeeded the list satisfies its invariants; after
\* add(f, sort=False) it holds fragments within the bounds, in any order
InitItem ==
    /\ begin \in {TimeValue(b) : b \in ListBegins}
    /\ end = TimeValue(ItemMaxT)
    /\ \/ /\ sorted = TRUE
          /\ fragments \in InvariantLists(begin.value, ItemMaxT, ItemMaxLen)
       \/ /\ sorted = FALSE
          /\ fragments \in BoundedLists(begin.value, ItemMaxT, ItemMaxLen)
    /\ ids \in Aliasings(fragments)
    /\ op = [name |-> "__init__", raised |-> NoError]

\* the indexes given to __setitem__: the last position, the first, and one
\* that no list of SpecItem has
SetIndexes == {-1, 0, ItemMaxLen}

\* the values given to __setitem__: two that are no fragment, one of them
\* with an end, a fragment whose interval is no TimeInterval, and a fragment
\* that ends after the list end
SetValues ==
    {NotAFragment, AnInterval, FragmentWithoutInterval,
     Fragment(0, ItemMaxT + 1, "a")}

\* no call but __setitem__ has been made yet
BeforeCall == op.name \in {"__init__", "__setitem__"}

NextItem ==
    \/ \E index \in SetIndexes, x \in Arguments(SetValues) :
          Fresh /\ setitem(index, x.fragment, x.alias)
    \/ \E x \in Arguments(Fragments(ItemMaxT + 1, {"a"}) \cup NoFragments),
          s \in BOOLEAN :
          BeforeCall /\ add(x.fragment, x.alias, s)
    \/ BeforeCall /\ sort
    \/ \E index \in (-1)..ItemMaxLen, value \in (-1)..(ItemMaxT + 1) :
          BeforeCall /\ move_end(index, value)
    \/ \E d \in (-1)..1 : BeforeCall /\ offset(TimeValue(d))
    \/ BeforeCall /\ offset(NotATimeValue)
    \/ BeforeCall /\ fix_zero_length_intervals(DefaultOffset, None, None)

SpecItem == InitItem /\ [][NextItem]_vars

(***************************************************************************)
(* Properties.                                                             *)
(***************************************************************************)

\* the last call was add(f, sort) and raised nothing
AddSucceeded(sort_arg) ==
    op.name = "add" /\ op.sort = sort_arg /\ op.raised = NoError

\* C1: from the empty list, under add(f, sort=True) alone, after every add
\* that succeeds the fragments are in ascending order by (begin, end) and
\* every adjacent pair is in an allowed position.
C1_SortedAddKeepsListSorted ==
    AddSucceeded(TRUE)
    => /\ IsAscending(fragments)
       /\ AdjacentAllowed(fragments)
       /\ \A i \in 1..(Len(fragments) - 1) :
             fragments[i].end <= fragments[i + 1].begin

\* an add has put its fragment between two others
C1_Witness ==
    /\ AddSucceeded(TRUE)
    /\ Len(fragments) = 3
    /\ fragments[2] = op.fragment
    /\ fragment_lt(fragments[1], fragments[2])
    /\ fragment_lt(fragments[2], fragments[3])

\* the intervals of e and f share a region of positive length
PositiveIntersection(e, f) == Max2(e.begin, f.begin) < Min2(e.end, f.end)

\* the intervals of e and f share at most one boundary point
TouchAtMost(e, f) == e.end <= f.begin \/ f.end <= e.begin

\* C2: on a sorted list, add(f, sort=True) of a fragment within the list
\* bounds raises the overlap error when f has a positive-length intersection
\* with any fragment of the list, and succeeds when f shares at most a
\* boundary point with every fragment of the list.
C2_AddRejectsExactlyOverlaps ==
    [][(op'.name = "add" /\ op'.sort /\ sorted
           /\ check_boundaries(op'.fragment) = NoError)
       => /\ (\E i \in 1..Len(fragments) :
                  PositiveIntersection(fragments[i], op'.fragment))
             => op'.raised = ErrOverlap /\ fragments' = fragments
          /\ (\A i \in 1..Len(fragments) : TouchAtMost(fragments[i], op'.fragment))
             => /\ op'.raised = NoError
                /\ Len(fragments') = Len(fragments) + 1
                /\ \E i \in 1..Len(fragments') : fragments'[i] = op'.fragment]_vars

\* with [0,2) present, [2,3) has been added and [1,3) has been refused
C2_Witness ==
    /\ op.name = "add" /\ op.sort
    /\ op.fragment = Fragment(1, 3, "a")
    /\ op.raised = ErrOverlap
    /\ fragments = <<Fragment(0, 2, "a"), Fragment(2, 3, "a")>>

\* C3: a list that satisfies the list invariants still satisfies them after
\* move_end(index, value), for every index and value.
C3_MoveEndKeepsInvariants ==
    op.name = "move_end" => ListInvariants(fragments, begin.value, end.value)

\* a is a list of consecutive fragments
Consecutive(a) == \A i \in 1..(Len(a) - 1) : a[i].end = a[i + 1].begin

\* C4: a sorted list of consecutive fragments that satisfies the list
\* invariants still satisfies them, and is still consecutive, after
\* fix_zero_length_intervals(offset, min_index, max_index) with a positive
\* offset and 0 <= min_index <= max_index <= length.
C4_FixKeepsInvariants ==
    [][(Consecutive(fragments) /\ op'.name = "fix_zero_length_intervals"
           /\ op'.min_index # None /\ op'.max_index # None)
       => ListInvariants(fragments', begin.value, end.value) /\ Consecutive(fragments')]_vars

\* x clamped into [lo, hi]
Clamp(x, lo, hi) == Min2(Max2(x, lo), hi)

\* C5: after offset(delta) every interval is the one before shifted by delta
\* and clamped on its own into the list bounds, so that
\* list.begin <= begin <= end <= list.end, and a list in ascending order with
\* allowed adjacent pairs stays so.
C5_OffsetClampsEachInterval ==
    [][(op'.name = "offset" /\ op'.raised = NoError)
       => /\ Len(fragments') = Len(fragments)
          /\ \A i \in 1..Len(fragments) :
                /\ fragments'[i].begin
                      = Clamp(fragments[i].begin + op'.offset.value, begin.value, end.value)
                /\ fragments'[i].end
                      = Clamp(fragments[i].end + op'.offset.value, begin.value, end.value)
                /\ fragments'[i].text = fragments[i].text
          /\ IntervalsValid(fragments')
          /\ WithinBounds(fragments', begin.value, end.value)
          /\ IsAscending(fragments')
          /\ AdjacentAllowed(fragments')]_vars

\* no object is held at two positions of the list
NoSharedObject == \A i \in 1..Len(ids) : ids[i] = i

\* C5, for a list that holds no object twice
C5_HoldsWithoutSharedObject ==
    [][(NoSharedObject /\ op'.name = "offset" /\ op'.raised = NoError)
       => /\ Len(fragments') = Len(fragments)
          /\ \A i \in 1..Len(fragments) :
                /\ fragments'[i].begin
                      = Clamp(fragments[i].begin + op'.offset.value, begin.value, end.value)
                /\ fragments'[i].end
                      = Clamp(fragments[i].end + op'.offset.value, begin.value, end.value)
                /\ fragments'[i].text = fragments[i].text
          /\ IntervalsValid(fragments')
          /\ WithinBounds(fragments', begin.value, end.value)
          /\ IsAscending(fragments')
          /\ AdjacentAllowed(fragments')]_vars

\* C6: fix_zero_length_intervals(0.001, 0, n) turns [0,0), [0,2) into
\* [0,0.001), [0.001,2) and [0,0), [0,0), [0,2) into
\* [0,0.001), [0.001,0.002), [0.002,2).
C6_FixExamples ==
    [][(op'.name = "fix_zero_length_intervals" /\ op'.offset = DefaultOffset
           /\ op'.min_index = 0 /\ op'.max_index = Len(fragments))
       => /\ fragments = ExampleList2
             => fragments' = <<Fragment(0, 1, "a"), Fragment(1, ExampleEnd, "a")>>
          /\ fragments = ExampleList3
             => fragments' = <<Fragment(0, 1, "a"), Fragment(1, 2, "b"),
                               Fragment(2, ExampleEnd, "a")>>]_vars

\* move_end(index, value) returns before it changes anything
MoveEndRefused(index, value) ==
    \/ index < 0
    \/ index + 1 >= Len(fragments)
    \/ value < begin.value
    \/ value > end.value
    \/ /\ index >= 0 /\ index + 1 < Len(fragments)
       /\ \/ value > fragments[index + 2].end
          \/ fragments[index + 1].end # fragments[index + 2].begin

\* C7: move_end(i, v) changes nothing if i < 0, or i + 1 >= length, or v is
\* outside the list bounds, or v > fragments[i+1].end, or fragments[i].end #
\* fragments[i+1].begin; otherwise it sets fragments[i].end and
\* fragments[i+1].begin to v and changes nothing else.
C7_MoveEndFrame ==
    [][op'.name = "move_end"
       => /\ sorted' = sorted /\ begin' = begin /\ end' = end
          /\ Len(fragments') = Len(fragments)
          /\ IF MoveEndRefused(op'.index, op'.value)
             THEN fragments' = fragments
             ELSE \A k \in 1..Len(fragments) :
                    /\ fragments'[k].text = fragments[k].text
                    /\ fragments'[k].begin
                          = IF k = op'.index + 2 THEN op'.value
                            ELSE fragments[k].begin
                    /\ fragments'[k].end
                          = IF k = op'.index + 1 THEN op'.value
                            ELSE fragments[k].end]_vars

\* C7, for a list that holds no object twice
C7_HoldsWithoutSharedObject ==
    [][(NoSharedObject /\ op'.name = "move_end")
       => /\ sorted' = sorted /\ begin' = begin /\ end' = end
          /\ Len(fragments') = Len(fragments)
          /\ IF MoveEndRefused(op'.index, op'.value)
             THEN fragments' = fragments
             ELSE \A k \in 1..Len(fragments) :
                    /\ fragments'[k].text = fragments[k].text
                    /\ fragments'[k].begin
                          = IF k = op'.index + 2 THEN op'.value
                            ELSE fragments[k].begin
                    /\ fragments'[k].end
                          = IF k = op'.index + 1 THEN op'.value
                            ELSE fragments[k].end]_vars

\* b holds the fragments of a, in some order
IsPermutation(a, b) ==
    /\ Len(a) = Len(b)
    /\ \E p \in Permutations(1..Len(a)) : \A i \in 1..Len(a) : b[i] = a[p[i]]

\* C8, as claimed: a call of add, sort or offset that raises leaves the
\* stored sequence, every interval and the sorted flag as they were.
C8_RaisingCallChangesNothing ==
    [][(op'.name \in {"add", "sort", "offset"} /\ op'.raised # NoError)
       => fragments' = fragments /\ sorted' = sorted]_vars

\* the first position (from 1) of a that holds no fragment
FirstOther(a) == MinOf({k \in 1..Len(a) : ~IsFragment(a[k])})

\* C8, amended: a call of add that raises leaves the list as it was; a call
\* of sort that raises leaves the sorted flag false and the same objects,
\* rearranged, in ascending order when all of them are fragments; a call of
\* offset that raises leaves the sorted flag and the length as they were; it
\* raises the type error, for a delta that is no TimeValue, with the list as
\* it was, or the attribute error, at the first stored object that is no
\* fragment, and then, when delta is a TimeValue, it has shifted and clamped
\* the objects stored before that one, and every other object is as it was.
C8_RaisingCallChangesOnlyOrder ==
    [][(op'.name \in {"add", "sort", "offset"} /\ op'.raised # NoError)
       => /\ sorted' = sorted
          /\ op'.name = "add" => fragments' = fragments
          /\ op'.name = "offset"
             => /\ op'.raised \in {ErrNotTimeValue, ErrAttribute}
                /\ Len(fragments') = Len(fragments)
                /\ op'.raised = ErrNotTimeValue
                   => /\ op'.offset.type # "TimeValue"
                      /\ fragments' = fragments
                /\ op'.raised = ErrAttribute
                   => /\ ~AllFragments(fragments)
                      /\ op'.offset.type # "TimeValue" => fragments' = fragments
                      /\ op'.offset.type = "TimeValue"
                         => \A i \in 1..Len(fragments) :
                               IF \A k \in 1..(FirstOther(fragments) - 1) :
                                     ids[k] # ids[i]
                               THEN fragments'[i] = fragments[i]
                               ELSE (\A k \in 1..(FirstOther(fragments) - 1) :
                                        ids[k] = ids[i] => k = i)
                                    => /\ fragments'[i].begin
                                          = Clamp(fragments[i].begin
                                                     + op'.offset.value,
                                                  begin.value, end.value)
                                       /\ fragments'[i].end
                                          = Clamp(fragments[i].end
                                                     + op'.offset.value,
                                                  begin.value, end.value)
          /\ op'.name = "sort"
             => /\ ~sorted'
                /\ IsPermutation(fragments, fragments')
                /\ AllFragments(fragments) => IsAscending(fragments')]_vars

\* sort has raised
C8_Witness ==
    /\ op.name = "sort" /\ op.raised = ErrSortOverlap
    /\ ~sorted
    /\ Len(fragments) = 2
    /\ PositiveIntersection(fragments[1], fragments[2])

\* C9, as claimed: add(f, sort=False) appends f and leaves the sorted flag
\* false, for every fragment f and every state of the list.
C9_UnsortedAddAlwaysAppends ==
    [][(op'.name = "add" /\ ~op'.sort /\ IsFragment(op'.fragment))
       => fragments' = Append(fragments, op'.fragment) /\ ~sorted']_vars

\* C9, amended: add(f, sort=False) appends f and leaves the sorted flag
\* false for every fragment f whose interval is a TimeInterval within the
\* list bounds, whatever the list holds; for a fragment outside the list
\* bounds it raises the range error, for a fragment whose interval is no
\* TimeInterval the type error, and changes nothing.
C9_UnsortedAddAppendsWithinBounds ==
    [][(op'.name = "add" /\ ~op'.sort /\ IsSyncMapFragment(op'.fragment))
       => IF ~IsFragment(op'.fragment)
          THEN /\ op'.raised = ErrNotInterval
               /\ fragments' = fragments
               /\ sorted' = sorted
          ELSE IF begin.value <= op'.fragment.begin
                  /\ op'.fragment.end <= end.value
          THEN /\ op'.raised = NoError
               /\ fragments' = Append(fragments, op'.fragment)
               /\ ~sorted'
          ELSE /\ op'.raised \in {ErrBeforeBegin, ErrAfterEnd}
               /\ fragments' = fragments
               /\ sorted' = sorted]_vars

\* add(f, sort=False) has appended a fragment that overlaps the one before
C9_Witness ==
    /\ AddSucceeded(FALSE)
    /\ Len(fragments) = 2
    /\ fragments[2] = op.fragment
    /\ PositiveIntersection(fragments[1], fragments[2])
    /\ ~sorted

\* C10: the sorted flag, once false, stays false until a call of sort that
\* raises nothing; an add(f, sort=False) that succeeds leaves it false; and
\* while it is false every add(g, sort=True) with g within the list bounds
\* raises the state error and changes nothing.
C10_SortedFlagResetOnlyBySort ==
    [][/\ (~sorted /\ sorted') => (op'.name = "sort" /\ op'.raised = NoError)
       /\ (op'.name = "add" /\ ~op'.sort /\ op'.raised = NoError) => ~sorted'
       /\ (~sorted /\ op'.name = "add" /\ op'.sort
              /\ check_boundaries(op'.fragment) = NoError)
          => /\ op'.raised = ErrNotSorted
             /\ fragments' = fragments
             /\ ~sorted']_vars

\* add(g, sort=True) has raised the state error
C10_Witness ==
    /\ op.name = "add" /\ op.sort
    /\ op.raised = ErrNotSorted
    /\ ~sorted

\* b holds the fragments of a in ascending order, those that the order does
\* not tell apart in the order they have in a
StablySorted(a, b) ==
    /\ Len(b) = Len(a)
    /\ IsAscending(b)
    /\ \E p \in Permutations(1..Len(a)) :
          /\ \A i \in 1..Len(a) : b[i] = a[p[i]]
          /\ \A i \in 1..Len(a), j \in 1..Len(a) :
                (i < j /\ ~fragment_lt(b[i], b[j])) => p[i] < p[j]

\* C11: sort() changes nothing when the sorted flag is set; when it is not
\* set, sort() puts the fragments in ascending order by a stable sort, and
\* then either every adjacent pair is allowed and the flag becomes set, or
\* some pair is forbidden and the overlap error is raised with the fragments
\* left in sorted order and the flag still unset.  A sort() after a
\* successful sort() leaves the same sequence and the flag set.
C11_SortStableThenValidates ==
    [][op'.name = "sort"
       => /\ sorted
             => fragments' = fragments /\ sorted' /\ op'.raised = NoError
          /\ ~sorted
             => /\ StablySorted(fragments, fragments')
                /\ AdjacentAllowed(fragments')
                   => sorted' /\ op'.raised = NoError
                /\ ~AdjacentAllowed(fragments')
                   => ~sorted' /\ op'.raised = ErrSortOverlap
          /\ (op.name = "sort" /\ op.raised = NoError)
             => fragments' = fragments /\ sorted' /\ op'.raised = NoError]_vars

\* a sort has put three fragments given out of order in order, two of them
\* equal in the order and kept as they were given
C11_Witness ==
    /\ op.name = "sort" /\ op.raised = NoError /\ sorted
    /\ fragments = <<Fragment(0, 1, "a"), Fragment(1, 1, "b"), Fragment(1, 1, "a")>>

\* b is a with x put in after the first k fragments
InsertedAt(a, x, k, b) ==
    b = SubSeq(a, 1, k) \o <<x>> \o SubSeq(a, k + 1, Len(a))

\* C12: after add(f, sort=True) has succeeded, the fragments are the previous
\* sequence with f inserted exactly once and nothing else changed; f stands
\* where the order stays ascending, to the right of every fragment that the
\* order does not tell apart from it.
C12_SortedAddInsertsRightOfEquals ==
    [][(op'.name = "add" /\ op'.sort /\ op'.raised = NoError)
       => \E k \in 0..Len(fragments) :
             /\ InsertedAt(fragments, op'.fragment, k, fragments')
             /\ \A i \in 1..k : ~fragment_lt(op'.fragment, fragments[i])
             /\ \A i \in (k + 1)..Len(fragments) :
                   fragment_lt(op'.fragment, fragments[i])]_vars

\* [1,1) with payload "b" has been added to a list holding [1,1) with
\* payload "a", and stands to its right
C12_Witness ==
    /\ AddSucceeded(TRUE)
    /\ op.fragment = Fragment(1, 1, "b")
    /\ fragments = <<Fragment(0, 1, "a"), Fragment(1, 1, "a"),
                     Fragment(1, 1, "b")>>

\* C13: offset(delta) raises the type error whenever delta is not a
\* TimeValue, for every list, the empty list included, and modifies no
\* fragment.
C13_OffsetRejectsNonTimeValue ==
    [][(op'.name = "offset" /\ op'.offset.type # "TimeValue")
       => op'.raised = ErrNotTimeValue /\ fragments' = fragments]_vars

\* C14: fix_zero_length_intervals(offset, min_index, max_index) modifies
\* only fragments with an index in [min_index, max_index), for every
\* 0 <= min_index <= max_index <= len, max_index = 0 and
\* min_index = max_index (the empty range, where nothing is modified)
\* included; the defaults 0 and len apply only to an argument not given.
C14_FixTouchesOnlyTheRange ==
    [][(/\ op'.name = "fix_zero_length_intervals"
        /\ op'.min_index # None /\ op'.max_index # None
        /\ op'.min_index <= op'.max_index
        /\ op'.max_index <= Len(fragments))
       => /\ Len(fragments') = Len(fragments)
          /\ \A k \in 1..Len(fragments) :
                (k - 1 < op'.min_index \/ k - 1 >= op'.max_index)
                => fragments'[k] = fragments[k]]_vars

\* the iterations of the outer loop in the call that op' records
FixIterations ==
    fix_iterations(fragments, or_default(op'.min_index, 0), op'.offset,
                   or_default(op'.max_index, Len(fragments)))

\* the slack needed at position k (from 0) by the zero-length fragment at i:
\* offset for it and for every zero-length fragment between i and k
SlackAt(a, i, k, o) ==
    o * (1 + Cardinality({m \in (i + 1)..(k - 1) : has_zero_length(a[m + 1])}))

\* no fragment between i and max_index is long enough to donate
NoDonorBefore(a, i, o, max_index) ==
    \A k \in (i + 1)..(max_index - 1) : length(a[k + 1]) < SlackAt(a, i, k, o)

\* C15: in fix_zero_length_intervals, when the walk from the zero-length
\* fragment at i reaches max_index and the end of the fragment at
\* max_index - 1 plus the slack is greater than the list end, no fragment is
\* mutated for that position and no error is raised.
C15_InfeasibleRepairLeavesList ==
    [][op'.name = "fix_zero_length_intervals"
       => LET its == FixIterations
              hi == or_default(op'.max_index, Len(fragments))
          IN  /\ op'.raised = NoError
              /\ fragments' = IF its = <<>> THEN fragments
                               ELSE its[Len(its)].after
              /\ \A n \in 1..Len(its) :
                    (/\ has_zero_length(its[n].before[its[n].i + 1])
                     /\ NoDonorBefore(its[n].before, its[n].i, op'.offset, hi)
                     /\ its[n].before[hi].end
                           + SlackAt(its[n].before, its[n].i, hi, op'.offset) > end.value)
                    => its[n].after = its[n].before]_vars

\* the zero-length fragment at the list end has been left as it was
C15_Witness ==
    /\ op.name = "fix_zero_length_intervals"
    /\ op.min_index = None /\ op.max_index = None
    /\ end = TimeValue(ListMaxT)
    /\ fragments = <<Fragment(0, ListMaxT, "a"), Fragment(ListMaxT, ListMaxT, "a")>>

\* every interval of a begins at or after the list begin, if there is one,
\* and ends at or before the list end, if there is one
WithinListBounds(a) ==
    \A i \in 1..Len(a) :
        /\ IsSet(begin) => a[i].begin >= begin.value
        /\ IsSet(end) => a[i].end <= end.value

\* C16: in every state reachable by add, sort, move_end, offset and
\* fix_zero_length_intervals, every interval of the list has
\* begin >= list begin and end <= list end.
C16_IntervalsStayWithinListBounds == WithinListBounds(fragments)

\* C16, without fix_zero_length_intervals: the bounds hold as long as that
\* operation has not been called
C16_HoldsBeforeFix ==
    [][(WithinListBounds(fragments)
        /\ op'.name # "fix_zero_length_intervals")
       => WithinListBounds(fragments')]_vars

\* C17: fix_zero_length_intervals terminates: after the zero-length fragment
\* at i is handled, with its walk stopped at j >= i + 1, the scan goes on at
\* j; the scan index strictly increases on every iteration of the outer
\* loop, and the walk never goes beyond max_index.
C17_FixScanStrictlyAdvances ==
    [][op'.name = "fix_zero_length_intervals"
       => LET its == FixIterations
              lo == or_default(op'.min_index, 0)
              hi == or_default(op'.max_index, Len(fragments))
              goes_on(n) == IF its[n].zero THEN its[n].j ELSE its[n].i + 1
          IN  /\ Len(its) <= hi - lo
              /\ fragments' = IF its = <<>> THEN fragments
                               ELSE its[Len(its)].after
              /\ \A n \in 1..Len(its) :
                    /\ lo <= its[n].i /\ its[n].i < hi
                    /\ its[n].zero = has_zero_length(its[n].before[its[n].i + 1])
                    /\ its[n].i + 1 <= its[n].j /\ its[n].j <= hi
                    /\ n = 1 => its[n].i = lo
                    /\ n < Len(its)
                       => /\ its[n + 1].i = goes_on(n)
                          /\ its[n + 1].i > its[n].i
                          /\ its[n + 1].before = its[n].after
                    /\ n = Len(its) => goes_on(n) >= hi]_vars

\* the walk from the zero-length fragment at 1 has passed the one at 2 and
\* stopped at 3, the end of the list
C17_Witness ==
    /\ op.name = "fix_zero_length_intervals"
    /\ op.min_index = None /\ op.max_index = None
    /\ end = TimeValue(ListMaxT)
    /\ fragments = <<Fragment(0, ListMaxT, "a"), Fragment(ListMaxT, ListMaxT, "a"),
                     Fragment(ListMaxT, ListMaxT, "a")>>
    /\ LET its == fix_iterations(fragments, 0, op.offset, Len(fragments))
       IN  Len(its) = 2 /\ its[2].i = 1 /\ its[2].j = 3

\* e lies strictly inside the positive-length f
StrictlyInside(e, f) == f.begin < e.begin /\ e.end < f.end

\* C18: after a sort() that succeeded, every pair of fragments, adjacent or
\* not, is in an allowed relative position; in particular no zero-length
\* fragment lies strictly inside a positive-length fragment.
C18_SortedListAllPairsAllowed ==
    (op.name = "sort" /\ op.raised = NoError)
    => /\ sorted
       /\ \A i \in 1..Len(fragments), j \in 1..Len(fragments) :
             i # j
             => /\ relative_position_of(fragments[i], fragments[j])
                      \in ALLOWED_POSITIONS
                /\ TouchAtMost(fragments[i], fragments[j])
                /\ ~StrictlyInside(fragments[i], fragments[j])

\* a sort of three fragments has succeeded, with a zero-length fragment
\* not next to the positive-length fragment it was given after
C18_Witness ==
    /\ op.name = "sort" /\ op.raised = NoError
    /\ fragments = <<Fragment(0, 0, "a"), Fragment(0, 1, "a"), Fragment(1, 1, "b")>>

\* C19: for every finite sequence of fragments within the list bounds given
\* to an empty list, adding them all with sort=False and then calling sort()
\* succeeds if and only if adding them one by one with sort=True succeeds
\* for every one of them, and then both lists hold the same fragments in the
\* same order, those equal in the order included, with the sorted flag set.
C19_AppendThenSortEqualsSortedAdds ==
    [][op'.name = "sort"
       => LET one_by_one == add_each_sorted(<<>>, fragments)
          IN  /\ (op'.raised = NoError) <=> one_by_one.ok
              /\ one_by_one.ok
                 => fragments' = one_by_one.fragments /\ sorted']_vars

\* a sort of three fragments given out of order has succeeded, two of them
\* equal in the order
C19_Witness ==
    /\ op.name = "sort" /\ op.raised = NoError /\ sorted
    /\ fragments = <<Fragment(0, 0, "b"), Fragment(0, 0, "a"), Fragment(0, 2, "a")>>

\* the repair of the zero-length fragment at position k (from 1) of a, and
\* of those after it, cannot be done: no fragment after it can donate, and
\* there is no room before the list end
RepairInfeasible(a, k, o) ==
    /\ NoDonorBefore(a, k - 1, o, Len(a))
    /\ a[Len(a)].end + SlackAt(a, k - 1, Len(a), o) > end.value

\* C20: for a sorted list of consecutive fragments and a positive offset,
\* after fix_zero_length_intervals over the whole list a fragment has zero
\* length only if its repair was infeasible; a donor shrunk to zero length by
\* donating its whole length is examined and repaired in the same call; every
\* repaired zero-length fragment ends with a length of exactly offset.
C20_FixRepairsEveryFeasibleFragment ==
    [][(/\ op'.name = "fix_zero_length_intervals"
        /\ or_default(op'.min_index, 0) = 0
        /\ or_default(op'.max_index, Len(fragments)) = Len(fragments)
        /\ Consecutive(fragments))
       => /\ Len(fragments') = Len(fragments)
          /\ \A k \in 1..Len(fragments) :
                /\ has_zero_length(fragments'[k])
                   => \E i \in 1..k :
                         /\ has_zero_length(fragments'[i])
                         /\ RepairInfeasible(fragments', i, op'.offset)
                /\ (has_zero_length(fragments[k]) /\ ~has_zero_length(fragments'[k]))
                   => length(fragments'[k]) = op'.offset]_vars
====
